---- MODULE Spec2Model ----
(***************************************************************************)
(* git-aicommit (src/main.go): runCommit and the streaming response        *)
(* assembler streamCommitMessage, as a state machine.                      *)
(*                                                                         *)
(* Text is a sequence of one-character strings.  A response line is a      *)
(* record [text, json]: text is what scanner.Text() returns, a sequence of *)
(* lexical pieces ("data:", " ", "[DONE]", "{json}", "{mismatch}");  json  *)
(* is the document the piece "{json}" / "{mismatch}" stands for, i.e. what *)
(* encoding/json finds in it.                                              *)
(***************************************************************************)
EXTENDS Naturals, Sequences, FiniteSets

VARIABLES
    pc,           \* position in main / runCommit / streamCommitMessage
    applyFlag,    \* the --apply flag
    stages,       \* the collaborators runCommit has called so far, in order
    runErr,       \* the error runCommit returns (Nil: none)
    exitCode,     \* <<>> while running, then <<0>> or <<1>>: the exit status
    stdout,       \* the console: the lines printed so far
    stderr,       \* what main printed to os.Stderr
    failure,      \* which failure the environment produced in the call:
                  \* "none", "marshal", "transport", "status" or "read"
    respBody,     \* the body of a non-success response, as the server sent it
    body,         \* the local body: what io.ReadAll returned of it
    lines,        \* the lines scanner.Scan() has delivered so far
    jsonStr,      \* the local jsonStr of the reading loop
    chunk,        \* the local chunk of the reading loop
    ci,           \* index of the current choice in chunk.Choices
    k,            \* index of the current rune in the current content
    fullMessage,  \* strings.Builder fullMessage
    currentLine,  \* strings.Builder currentLine
    scanErr,      \* scanner.Err() once the loop has ended
    ret,          \* the message streamCommitMessage returned
    err,          \* the error streamCommitMessage returned
    commits       \* the messages createCommit was called with, in order

vars == <<pc, applyFlag, stages, runErr, exitCode, stdout, stderr, failure,
          respBody, body, lines, jsonStr, chunk, ci, k, fullMessage, currentLine, scanErr,
          ret, err, commits>>

streamVars == <<lines, jsonStr, chunk, ci, k, fullMessage, currentLine,
                scanErr>>

(***************************************************************************)
(* Bounds of the model.                                                    *)
(***************************************************************************)
\* The size of a response: 1 per line, 1 per content character, 1 per
\* choice without characters.
MaxSize == 5
\* Longest body of a non-success response.
MaxBody == 2

(***************************************************************************)
(* Text helpers: the Go library functions the code calls.                  *)
(***************************************************************************)
NL == "\n"
Nil == <<>>

IsSpace(c) == c \in {" ", NL}

RECURSIVE TrimLeft(_)
TrimLeft(s) ==
    IF s # <<>> /\ IsSpace(Head(s)) THEN TrimLeft(Tail(s)) ELSE s

RECURSIVE TrimRight(_)
TrimRight(s) ==
    IF s # <<>> /\ IsSpace(s[Len(s)])
    THEN TrimRight(SubSeq(s, 1, Len(s) - 1))
    ELSE s

TrimSpace(s) == TrimRight(TrimLeft(s))

TrimSuffix(s, c) ==
    IF s # <<>> /\ s[Len(s)] = c THEN SubSeq(s, 1, Len(s) - 1) ELSE s

HasPrefix(s, p) == Len(s) >= 1 /\ s[1] = p

(***************************************************************************)
(* The wire format.                                                        *)
(***************************************************************************)
DataMarker == "data:"
DoneText == <<DataMarker, " ", "[DONE]">>

EmptyDoc == [Choices |-> <<>>]
TextLine(t) == [text |-> t, json |-> EmptyDoc]
\* A data line whose payload is a well-formed event.
EventLine(choices) ==
    [text |-> <<DataMarker, " ", "{json}">>, json |-> [Choices |-> choices]]
\* A data line whose payload is valid JSON of the wrong shape: Unmarshal
\* fills what it can and returns an UnmarshalTypeError.
MismatchLine(choices) ==
    [text |-> <<DataMarker, " ", "{mismatch}">>,
     json |-> [Choices |-> choices]]

DoneLine == TextLine(DoneText)

Alphabet == {"a", " ", NL}

\* The content strings of exactly n characters.
Contents[n \in 0..MaxSize] ==
    IF n = 0 THEN {<<>>}
    ELSE {Append(s, c) : s \in Contents[n - 1], c \in Alphabet}

\* A choice is its Delta.Content pointer: <<>> is nil, <<s>> points to s.
\* A choice costs 1 per content character, and 1 when it has none.
ChoiceCost(ch) ==
    IF ch = Nil \/ ch[1] = <<>> THEN 1 ELSE Len(ch[1])

ChoicesOfCost(c) ==
    {<<s>> : s \in Contents[c]} \cup (IF c = 1 THEN {Nil, <<<<>>>>} ELSE {})

\* The choice lists of total cost c.
ChoiceLists[c \in 0..MaxSize] ==
    IF c = 0 THEN {<<>>}
    ELSE UNION {{<<ch>> \o rest : ch \in ChoicesOfCost(j),
                                  rest \in ChoiceLists[c - j]} : j \in 1..c}

\* A line costs 1 plus its choices.
LineSize(l) ==
    LET RECURSIVE Cost(_)
        Cost(cs) == IF cs = <<>> THEN 0
                    ELSE ChoiceCost(Head(cs)) + Cost(Tail(cs))
    IN 1 + Cost(l.json.Choices)

RECURSIVE StreamSize(_)
StreamSize(ls) ==
    IF ls = <<>> THEN 0 ELSE LineSize(Head(ls)) + StreamSize(Tail(ls))

\* The lines a response may hold: a blank line, the termination line, a
\* data line with nothing after the marker, "data:[DONE]" (no space, so not
\* the termination line), every event within the size bound, and documents
\* of the wrong shape holding at most one choice of one character.
Lines ==
    {TextLine(<<>>), DoneLine, TextLine(<<DataMarker, " ">>),
     TextLine(<<DataMarker, "[DONE]">>)}
    \cup UNION {{EventLine(cs) : cs \in ChoiceLists[c]} : c \in 0..(MaxSize - 1)}
    \cup UNION {{MismatchLine(cs) : cs \in ChoiceLists[c]} : c \in 0..1}

LinesOfSize == [c \in 1..MaxSize |-> {l \in Lines : LineSize(l) = c}]

Bodies == UNION {[1..n -> {"e", "f"}] : n \in 0..MaxBody}

(***************************************************************************)
(* streamCommitMessage, lines 289-370: the pieces of the reading loop.     *)
(***************************************************************************)
Marker == <<"|", " ">>

\* A slip: the error leaves the body out.
APIErrorNoBody(b) == <<"API failed: ">>

\* fmt.Errorf("API failed: %s", string(body))
APIError(b) == <<"API failed: ">> \o b

\* A slip: the termination line is not told apart from a data line.
IsDataLineNoSentinel(text) == HasPrefix(text, DataMarker)

\* strings.HasPrefix(line, "data:") && line != "data: [DONE]"
IsDataLine(text) == HasPrefix(text, DataMarker) /\ text # DoneText

\* json.Unmarshal([]byte(jsonStr), &chunk) into a zero chunk: a document of
\* the expected shape decodes; one of the wrong shape fills what fits and
\* returns an error; anything else is a syntax error and fills nothing.
Unmarshal(js, doc) ==
    IF js = <<"{json}">> THEN [err |-> FALSE, chunk |-> doc]
    ELSE IF js = <<"{mismatch}">> THEN [err |-> TRUE, chunk |-> doc]
    ELSE [err |-> TRUE, chunk |-> EmptyDoc]

\* A slip: the "continue" after a failed Unmarshal is missing, so what the
\* decoder filled in before it failed goes on to the choices loop.
DecodeLineKeepPartial(l) ==
    LET js == TrimSpace(Tail(l.text))
        u == Unmarshal(js, l.json)
    IN IF ~IsDataLine(l.text)
       THEN [candidate |-> FALSE, jsonStr |-> <<>>, process |-> FALSE,
             chunk |-> EmptyDoc]
       ELSE IF js = <<>>
       THEN [candidate |-> TRUE, jsonStr |-> js, process |-> FALSE,
             chunk |-> EmptyDoc]
       ELSE [candidate |-> TRUE, jsonStr |-> js, process |-> TRUE,
             chunk |-> u.chunk]

\* Lines 329-338 on one line: whether the line is a candidate (jsonStr is
\* assigned), and whether its chunk goes on to the choices loop.
DecodeLine(l) ==
    LET js == TrimSpace(Tail(l.text))
        u == Unmarshal(js, l.json)
    IN IF ~IsDataLine(l.text)
       THEN [candidate |-> FALSE, jsonStr |-> <<>>, process |-> FALSE,
             chunk |-> EmptyDoc]
       ELSE IF js = <<>>
       THEN [candidate |-> TRUE, jsonStr |-> js, process |-> FALSE,
             chunk |-> EmptyDoc]
       ELSE [candidate |-> TRUE, jsonStr |-> js, process |-> ~u.err,
             chunk |-> u.chunk]

\* A slip: each fragment is trimmed before it is appended.
DeltaContentTrimmed(choice) == TrimSpace(choice[1])

\* content := *choice.Delta.Content
DeltaContent(choice) == choice[1]

\* A slip: the completed line is trimmed like the residual is.
EchoLineTrimSpace(l) == Marker \o TrimSpace(l)

\* fmt.Printf("| %s", strings.TrimSuffix(line, "\n")); fmt.Println()
EchoLine(l) == Marker \o TrimSuffix(l, NL)

\* fmt.Printf("| %s\n", strings.TrimSpace(line))
EchoResidual(l) == Marker \o TrimSpace(l)

\* A slip: currentLine.Reset() is missing.
WriteRuneNoReset(acc, ch) ==
    LET cl == Append(acc.currentLine, ch)
    IN IF ch = NL
       THEN [fullMessage |-> acc.fullMessage \o cl,
             currentLine |-> cl,
             stdout |-> Append(acc.stdout, Marker \o TrimSuffix(cl, NL))]
       ELSE [acc EXCEPT !.currentLine = cl]

\* Lines 344-351 on the accumulator [fullMessage, currentLine, stdout].
WriteRune(acc, ch) ==
    LET cl == Append(acc.currentLine, ch)
    IN IF ch = NL
       THEN [fullMessage |-> acc.fullMessage \o cl,
             currentLine |-> <<>>,
             stdout |-> Append(acc.stdout, EchoLine(cl))]
       ELSE [acc EXCEPT !.currentLine = cl]

\* A slip: the residual is printed but not appended to fullMessage.
FlushNoAppend(acc) ==
    IF Len(acc.currentLine) > 0
    THEN [acc EXCEPT !.stdout =
                         Append(@, Marker \o TrimSpace(acc.currentLine))]
    ELSE acc

\* A slip: the residual is appended to fullMessage but not printed.
FlushNoEcho(acc) ==
    IF Len(acc.currentLine) > 0
    THEN [acc EXCEPT !.fullMessage = @ \o acc.currentLine]
    ELSE acc

\* Lines 359-363.
Flush(acc) ==
    IF Len(acc.currentLine) > 0
    THEN [acc EXCEPT !.stdout = Append(@, EchoResidual(acc.currentLine)),
                     !.fullMessage = @ \o acc.currentLine]
    ELSE acc

\* A slip: the message is returned whatever scanner.Err() says.
ReturnMessagePartial(full, e) == full

\* Lines 365-369: the returned message.
ReturnMessage(full, e) == IF e # Nil THEN <<>> ELSE full

Acc == [fullMessage |-> fullMessage, currentLine |-> currentLine,
        stdout |-> stdout]

(***************************************************************************)
(* The same loop as a function of the whole list of lines.                 *)
(***************************************************************************)
RECURSIVE WriteContent(_, _)
WriteContent(acc, content) ==
    IF content = <<>> THEN acc
    ELSE WriteContent(WriteRune(acc, Head(content)), Tail(content))

RECURSIVE ProcessChoices(_, _)
ProcessChoices(acc, choices) ==
    IF choices = <<>> THEN acc
    ELSE ProcessChoices(
             IF Head(choices) # Nil
             THEN WriteContent(acc, DeltaContent(Head(choices)))
             ELSE acc,
             Tail(choices))

ProcessLine(acc, l) ==
    LET d == DecodeLine(l)
    IN IF d.process THEN ProcessChoices(acc, d.chunk.Choices) ELSE acc

RECURSIVE ScanAll(_, _)
ScanAll(acc, ls) ==
    IF ls = <<>> THEN acc ELSE ScanAll(ProcessLine(acc, Head(ls)), Tail(ls))

(***************************************************************************)
(* main and runCommit, lines 78-125.                                       *)
(***************************************************************************)
\* printBanner: the rule, the centred title, the rule (widths left out).
Banner(title) == << <<"=">>, <<title>>, <<"=">> >>

\* A slip: the error of streamCommitMessage is not looked at.
AfterStreamPcNoCheck(e, flag) == IF flag THEN "createCommit" ELSE "exit"

\* Lines 110-115: where runCommit goes once streamCommitMessage returned.
AfterStreamPc(e, flag) ==
    IF e # Nil THEN "exit" ELSE IF flag THEN "createCommit" ELSE "exit"

Init ==
    /\ pc = "loadConfig"
    /\ applyFlag \in BOOLEAN
    /\ stages = <<>>
    /\ runErr = Nil
    /\ exitCode = <<>>
    /\ stdout = <<>>
    /\ stderr = <<>>
    /\ failure = "none"
    /\ respBody = <<>>
    /\ body = <<>>
    /\ lines = <<>>
    /\ jsonStr = <<>>
    /\ chunk = EmptyDoc
    /\ ci = 0
    /\ k = 0
    /\ fullMessage = <<>>
    /\ currentLine = <<>>
    /\ scanErr = Nil
    /\ ret = <<>>
    /\ err = Nil
    /\ commits = <<>>

\* Lines 87-94: loadConfig fails, or the key is empty, or all is well.
LoadConfig ==
    /\ pc = "loadConfig"
    /\ stages' = Append(stages, "loadConfig")
    /\ \E outcome \in {"error", "nokey", "ok"} :
         /\ runErr' = CASE outcome = "error" -> <<"failed to load config: ", "io">>
                        [] outcome = "nokey" -> <<"error: No DeepSeek API key found">>
                        [] OTHER -> Nil
         /\ pc' = IF outcome = "ok" THEN "getStagedChanges" ELSE "exit"
    /\ UNCHANGED <<applyFlag, exitCode, stdout, stderr, failure, respBody,
                   body, ret, err, commits>>
    /\ UNCHANGED streamVars

\* Lines 97-100 and 216-229: git fails, or nothing is staged, or a diff.
GetStagedChanges ==
    /\ pc = "getStagedChanges"
    /\ stages' = Append(stages, "getStagedChanges")
    /\ \E outcome \in {"error", "empty", "ok"} :
         /\ runErr' = CASE outcome = "error" ->
                             <<"failed to get staged changes: ", "exit status">>
                        [] outcome = "empty" ->
                             <<"failed to get staged changes: ",
                               "no staged changes found">>
                        [] OTHER -> Nil
         /\ pc' = IF outcome = "ok" THEN "buildPromptMessages" ELSE "exit"
    /\ UNCHANGED <<applyFlag, exitCode, stdout, stderr, failure, respBody,
                   body, ret, err, commits>>
    /\ UNCHANGED streamVars

\* Lines 103-106: the prompt is built (it cannot fail), the banner printed.
BuildPromptMessages ==
    /\ pc = "buildPromptMessages"
    /\ stages' = Append(stages, "buildPromptMessages")
    /\ stdout' = stdout \o Banner("AI Suggested Commit Message")
    /\ pc' = "streamCommitMessage"
    /\ UNCHANGED <<applyFlag, runErr, exitCode, stderr, failure, respBody,
                   body, ret, err, commits>>
    /\ UNCHANGED streamVars

(***************************************************************************)
(* streamCommitMessage as steps.                                           *)
(***************************************************************************)
\* Lines 290-320.  json.Marshal fails on a NaN or infinite temperature;
\* http.NewRequest cannot fail on its constant method and URL; client.Do
\* fails on a transport error; a status other than 200 returns the body as
\* far as io.ReadAll could read it (its error is dropped).
OpenRequest ==
    /\ pc = "streamCommitMessage"
    /\ stages' = Append(stages, "streamCommitMessage")
    /\ \/ /\ failure' = "marshal"
          /\ err' = <<"json: unsupported value">>
          /\ UNCHANGED <<respBody, body>>
          /\ pc' = "afterStream"
       \/ /\ failure' = "transport"
          /\ err' = <<"Post: dial tcp">>
          /\ UNCHANGED <<respBody, body>>
          /\ pc' = "afterStream"
       \/ \E sent \in Bodies, n \in 0..MaxBody :
            /\ n <= Len(sent)
            /\ failure' = "status"
            /\ respBody' = sent
            /\ body' = SubSeq(sent, 1, n)
            /\ err' = APIError(body')
            /\ pc' = "afterStream"
       \/ /\ UNCHANGED <<failure, err, respBody, body>>
          /\ pc' = "scan"
    /\ ret' = <<>>
    /\ UNCHANGED <<applyFlag, runErr, exitCode, stdout, stderr, commits>>
    /\ UNCHANGED streamVars

\* Lines 326-338: scanner.Scan() delivers a line.
Scan ==
    /\ pc = "scan"
    /\ \E c \in 1..(MaxSize - StreamSize(lines)) : \E l \in LinesOfSize[c] :
         /\ lines' = Append(lines, l)
         /\ LET d == DecodeLine(l)
            IN /\ jsonStr' = IF d.candidate THEN d.jsonStr ELSE jsonStr
               /\ chunk' = IF d.candidate /\ d.jsonStr # <<>>
                           THEN d.chunk ELSE chunk
               /\ ci' = IF d.process THEN 1 ELSE ci
               /\ pc' = IF d.process THEN "choice" ELSE "scan"
    /\ UNCHANGED <<applyFlag, stages, runErr, exitCode, stdout, stderr,
                   failure, respBody, body, k, fullMessage, currentLine,
                   scanErr, ret, err, commits>>

\* Lines 340-342: the next choice of the chunk, if any.
NextChoice ==
    /\ pc = "choice"
    /\ IF ci > Len(chunk.Choices)
       THEN /\ pc' = "scan"
            /\ UNCHANGED <<ci, k>>
       ELSE IF chunk.Choices[ci] = Nil
       THEN /\ pc' = "choice"
            /\ ci' = ci + 1
            /\ UNCHANGED k
       ELSE /\ pc' = "rune"
            /\ k' = 1
            /\ UNCHANGED ci
    /\ UNCHANGED <<applyFlag, stages, runErr, exitCode, stdout, stderr,
                   failure, respBody, body, lines, jsonStr, chunk,
                   fullMessage, currentLine, scanErr, ret, err, commits>>

\* Lines 343-352: the next rune of the content, if any.
NextRune ==
    /\ pc = "rune"
    /\ LET content == DeltaContent(chunk.Choices[ci])
       IN IF k > Len(content)
          THEN /\ pc' = "choice"
               /\ ci' = ci + 1
               /\ UNCHANGED <<k, fullMessage, currentLine, stdout>>
          ELSE LET a == WriteRune(Acc, content[k])
               IN /\ fullMessage' = a.fullMessage
                  /\ currentLine' = a.currentLine
                  /\ stdout' = a.stdout
                  /\ k' = k + 1
                  /\ UNCHANGED <<pc, ci>>
    /\ UNCHANGED <<applyFlag, stages, runErr, exitCode, stderr, failure,
                   respBody, body, lines, jsonStr, chunk, scanErr, ret, err,
                   commits>>

\* Line 326: scanner.Scan() returns false, at the end of the body or on a
\* read failure (scanner.Err() is then not nil).
ScanEnd ==
    /\ pc = "scan"
    /\ \/ /\ scanErr' = Nil
          /\ UNCHANGED failure
       \/ /\ scanErr' = <<"unexpected EOF">>
          /\ failure' = "read"
    /\ pc' = "flush"
    /\ UNCHANGED <<applyFlag, stages, runErr, exitCode, stdout, stderr,
                   respBody, body, lines, jsonStr, chunk, ci, k, fullMessage,
                   currentLine, ret, err, commits>>

\* Lines 358-363.
FlushResidual ==
    /\ pc = "flush"
    /\ LET a == Flush(Acc)
       IN /\ fullMessage' = a.fullMessage
          /\ currentLine' = a.currentLine
          /\ stdout' = a.stdout
    /\ pc' = "return"
    /\ UNCHANGED <<applyFlag, stages, runErr, exitCode, stderr, failure,
                   respBody, body, lines, jsonStr, chunk, ci, k, scanErr, ret,
                   err, commits>>

\* Lines 365-369.  The locals of the call end with it; the response it
\* read stays on record until runCommit has taken the result.
Return ==
    /\ pc = "return"
    /\ ret' = ReturnMessage(fullMessage, scanErr)
    /\ err' = scanErr
    /\ pc' = "afterStream"
    /\ jsonStr' = <<>>
    /\ chunk' = EmptyDoc
    /\ ci' = 0
    /\ k' = 0
    /\ fullMessage' = <<>>
    /\ currentLine' = <<>>
    /\ scanErr' = Nil
    /\ UNCHANGED <<applyFlag, stages, runErr, exitCode, stdout, stderr,
                   failure, respBody, body, lines, commits>>

(***************************************************************************)
(* Back in runCommit.                                                      *)
(***************************************************************************)
\* Lines 110-115.
AfterStream ==
    /\ pc = "afterStream"
    /\ runErr' = IF err # Nil
                 THEN <<"failed to generate commit message: ">> \o err
                 ELSE Nil
    /\ pc' = AfterStreamPc(err, applyFlag)
    /\ lines' = <<>>
    /\ UNCHANGED <<applyFlag, stages, exitCode, stdout, stderr, failure,
                   respBody, body, ret, err, commits, jsonStr, chunk, ci, k,
                   fullMessage, currentLine, scanErr>>

\* Lines 116-121: createCommit(strings.TrimSpace(fullMessage)).
CreateCommit ==
    /\ pc = "createCommit"
    /\ stages' = Append(stages, "createCommit")
    /\ commits' = Append(commits, TrimSpace(ret))
    /\ \/ /\ runErr' = <<"failed to create commit: ", "git">>
          /\ UNCHANGED stdout
       \/ /\ UNCHANGED runErr
          /\ stdout' = stdout \o Banner("Commit Successful")
                              \o << <<"Commit ID: ", "id">>, <<>> >>
    /\ pc' = "exit"
    /\ UNCHANGED <<applyFlag, exitCode, stderr, failure, respBody, body, ret,
                   err>>
    /\ UNCHANGED streamVars

\* Lines 78-83: main prints the error and exits 1, or returns.
Exit ==
    /\ pc = "exit"
    /\ IF runErr # Nil
       THEN /\ stderr' = Append(stderr, <<"Error: ">> \o runErr)
            /\ exitCode' = <<1>>
       ELSE /\ UNCHANGED stderr
            /\ exitCode' = <<0>>
    /\ pc' = "halt"
    /\ UNCHANGED <<applyFlag, stages, runErr, stdout, failure, respBody, body,
                   ret, err, commits>>
    /\ UNCHANGED streamVars

Next ==
    \/ LoadConfig
    \/ GetStagedChanges
    \/ BuildPromptMessages
    \/ OpenRequest
    \/ Scan
    \/ NextChoice
    \/ NextRune
    \/ ScanEnd
    \/ FlushResidual
    \/ Return
    \/ AfterStream
    \/ CreateCommit
    \/ Exit

Spec == Init /\ [][Next]_vars

(***************************************************************************)
(* What the claims speak of, stated from the response alone.               *)
(***************************************************************************)
IsPrefix(s, t) == Len(s) <= Len(t) /\ SubSeq(t, 1, Len(s)) = s
Front(s) == SubSeq(s, 1, Len(s) - 1)
Max(S) == CHOOSE x \in S : \A y \in S : y <= x
Min(S) == CHOOSE x \in S : \A y \in S : x <= y

\* A data line that carries a well-formed event.
WellFormed(l) == l.text = <<DataMarker, " ", "{json}">>

\* A data line with an empty or undecodable payload.
Skipped(l) ==
    /\ HasPrefix(l.text, DataMarker)
    /\ l.text # DoneText
    /\ ~WellFormed(l)

\* The content strings of a choice list, joined.
RECURSIVE Joined(_)
Joined(cs) ==
    IF cs = <<>> THEN <<>>
    ELSE (IF Head(cs) = Nil THEN <<>> ELSE Head(cs)[1]) \o Joined(Tail(cs))

\* The content strings of the well-formed events of ls, joined.
RECURSIVE Received(_)
Received(ls) ==
    IF ls = <<>> THEN <<>>
    ELSE (IF WellFormed(Head(ls)) THEN Joined(Head(ls).json.Choices)
          ELSE <<>>) \o Received(Tail(ls))

\* The content characters the loop has gone through at this point.
ReceivedSoFar ==
    IF pc \notin {"choice", "rune"} THEN Received(lines)
    ELSE LET cs == lines[Len(lines)].json.Choices
         IN Received(Front(lines)) \o Joined(SubSeq(cs, 1, ci - 1))
              \o (IF pc = "rune" THEN SubSeq(cs[ci][1], 1, k - 1) ELSE <<>>)

NLPos(t) == {i \in DOMAIN t : t[i] = NL}
Residual(t) == SubSeq(t, Max(NLPos(t) \cup {0}) + 1, Len(t))
\* The n-th newline-terminated line of t, without its newline.
CompleteLine(t, n) ==
    LET e == CHOOSE i \in NLPos(t) :
                 Cardinality({j \in NLPos(t) : j <= i}) = n
        b == Max({j \in NLPos(t) : j < e} \cup {0})
    IN SubSeq(t, b + 1, e - 1)
Trimmed(t) ==
    LET ns == {i \in DOMAIN t : ~IsSpace(t[i])}
    IN IF ns = {} THEN <<>> ELSE SubSeq(t, Min(ns), Max(ns))

\* The console lines the text t calls for.
ExpectedConsole(t) ==
    [n \in 1..Cardinality(NLPos(t)) |-> Marker \o CompleteLine(t, n)]
    \o (IF Residual(t) # <<>> THEN <<Marker \o Trimmed(Residual(t))>>
        ELSE <<>>)

Greeting == Banner("AI Suggested Commit Message")
\* What streamCommitMessage has printed: the console after the banner.
Printed == SubSeq(stdout, Len(Greeting) + 1, Len(stdout))

Acc0 == [fullMessage |-> <<>>, currentLine |-> <<>>, stdout |-> Greeting]
Succeeded == pc = "afterStream" /\ failure = "none"
\* The choices of l that carry characters.
Fragments(l) ==
    {i \in DOMAIN l.json.Choices :
        l.json.Choices[i] # Nil /\ l.json.Choices[i][1] # <<>>}
Carriers(ls) == {i \in DOMAIN ls : WellFormed(ls[i]) /\ Fragments(ls[i]) # {}}

(***************************************************************************)
(* C1: when the stream is read to its end without a read failure, the      *)
(* returned message is the content strings of all decoded data events      *)
(* joined in arrival order, an unterminated residual included.             *)
(***************************************************************************)
C1_Concatenation == Succeeded => ret = Received(lines)

C1_Witness ==
    /\ Succeeded
    /\ Len(lines) >= 2
    /\ \E i \in Carriers(lines) : Cardinality(Fragments(lines[i])) >= 2
    /\ NLPos(ret) # {}
    /\ Residual(ret) # <<>>

StatusFailed == pc = "afterStream" /\ failure = "status"

(***************************************************************************)
(* C2 as claimed: on a non-success status the failure's text equals the    *)
(* literal response body, the message is empty, the loop is never entered  *)
(* and no generated line is printed.                                       *)
(***************************************************************************)
C2_Original ==
    StatusFailed =>
        /\ err = respBody
        /\ ret = <<>>
        /\ lines = <<>>
        /\ Printed = <<>>

(***************************************************************************)
(* C2 as amended: on a non-success status the failure's text is            *)
(* "API failed: " followed by the response body as far as io.ReadAll       *)
(* returned it; the message is empty, the loop is never entered and no     *)
(* generated line is printed.                                              *)
(***************************************************************************)
C2_StatusFailure ==
    StatusFailed =>
        /\ err = <<"API failed: ">> \o body
        /\ IsPrefix(body, respBody)
        /\ ret = <<>>
        /\ lines = <<>>
        /\ Printed = <<>>

C2_Witness == StatusFailed /\ body = respBody /\ Len(body) >= 2

(***************************************************************************)
(* C3: each failure of streamCommitMessage (serialization, transport,      *)
(* non-success status, read failure) returns an error and an empty         *)
(* message, also when complete lines were already accumulated.             *)
(***************************************************************************)
C3_NoPartialMessage ==
    (pc = "afterStream" /\ failure # "none") => (err # Nil /\ ret = <<>>)

C3_Witness ==
    /\ pc = "afterStream"
    /\ failure = "read"
    /\ NLPos(Received(lines)) # {}
    /\ ret = <<>>

Kept(ls) == SelectSeq(ls, LAMBDA l : ~Skipped(l))

(***************************************************************************)
(* C4: a data line whose payload is empty or fails to decode never ends    *)
(* the reading, and the accumulators, the console and the returned message *)
(* are those of the response with every such line removed.                 *)
(***************************************************************************)
C4_FaultIsolation ==
    /\ pc = "scan" => Acc = ScanAll(Acc0, Kept(lines))
    /\ (pc = "afterStream" /\ failure \in {"none", "read"}) =>
           LET a == Flush(ScanAll(Acc0, Kept(lines)))
           IN /\ stdout = a.stdout
              /\ ret = ReturnMessage(a.fullMessage, err)
    /\ (pc \in {"choice", "rune"}) => ~Skipped(lines[Len(lines)])

C4_Witness ==
    /\ Succeeded
    /\ ret # <<>>
    /\ \E i \in DOMAIN lines :
         /\ Skipped(lines[i])
         /\ Joined(lines[i].json.Choices) # <<>>
         /\ \E j \in Carriers(lines) : j > i

OneFragment(t) == <<EventLine(<<<<t>>>>)>>

(***************************************************************************)
(* C5: a text delivered in any number of fragments over any number of      *)
(* events and choices gives the returned message and the printed lines of  *)
(* the same text delivered as one fragment in one event.                   *)
(***************************************************************************)
C5_FragmentationInvariance ==
    Succeeded =>
        LET a == Flush(ScanAll(Acc0, OneFragment(Received(lines))))
        IN ret = a.fullMessage /\ stdout = a.stdout

C5_Witness ==
    /\ Succeeded
    /\ Cardinality(Carriers(lines)) >= 2
    /\ \E i \in Carriers(lines) : Cardinality(Fragments(lines[i])) >= 2
    /\ \A i \in Carriers(lines) : \A j \in Fragments(lines[i]) :
           Len(lines[i].json.Choices[j][1]) = 1
    /\ NLPos(ret) # {}
    /\ Len(ret) >= 2

(***************************************************************************)
(* C6: a successful stream prints one marker-prefixed line per newline     *)
(* received, in arrival order, each without its newline; then a non-empty  *)
(* residual once, trimmed; an empty residual prints nothing.               *)
(***************************************************************************)
C6_ConsoleOutput == Succeeded => Printed = ExpectedConsole(Received(lines))

C6_Witness ==
    /\ Succeeded
    /\ Len(Printed) >= 2
    /\ Residual(ret) # <<>>
    /\ Printed[Len(Printed)] # Marker \o Residual(ret)
    /\ Printed[1] # Marker

\* C7, the order of the stages.
Pipeline == <<"loadConfig", "getStagedChanges", "buildPromptMessages",
              "streamCommitMessage", "createCommit">>

\* C7, in every state.
C7_State ==
    /\ IsPrefix(stages, Pipeline)
    /\ runErr # Nil => pc \in {"exit", "halt"}
    /\ (failure # "none" /\ pc \in {"createCommit", "exit", "halt"}) =>
           runErr # Nil
    /\ Len(commits) <= 1
    /\ commits # <<>> =>
           applyFlag /\ failure = "none" /\ err = Nil /\ stages = Pipeline
    /\ pc = "halt" => exitCode = (IF runErr # Nil THEN <<1>> ELSE <<0>>)

\* C7, in every step: after an error nothing more is called or printed.
C7_Step == runErr # Nil => UNCHANGED <<stages, commits, stdout, runErr>>

(***************************************************************************)
(* C7: runCommit calls its collaborators in the order configuration,       *)
(* staged changes, prompt, streaming, commit; once a stage has failed      *)
(* nothing more runs and main exits with status 1; the commit is made at   *)
(* most once, only with the apply flag and after every stage succeeded.    *)
(***************************************************************************)
C7_PipelineOrder == []C7_State /\ [][C7_Step]_vars

C7_Witness ==
    /\ pc = "halt"
    /\ commits # <<>>
    /\ commits[1] # <<>>
    /\ runErr = Nil
    /\ exitCode = <<0>>

InLoop == pc \in {"scan", "choice", "rune"}

\* C8, in every state of the loop.
C8_State ==
    InLoop =>
        /\ fullMessage \o currentLine = ReceivedSoFar
        /\ NLPos(currentLine) = {}
        /\ fullMessage # <<>> => fullMessage[Len(fullMessage)] = NL

\* C8, in every step: the rune at hand is taken from the response.
C8_Step ==
    /\ (InLoop \/ pc = "flush") => IsPrefix(fullMessage, fullMessage')
    /\ (pc = "rune" /\ k <= Len(lines[Len(lines)].json.Choices[ci][1])) =>
           LET ch == lines[Len(lines)].json.Choices[ci][1][k]
           IN IF ch = NL
              THEN /\ currentLine' = <<>>
                   /\ fullMessage' = fullMessage \o currentLine \o <<NL>>
                   /\ stdout' = Append(stdout, Marker \o currentLine)
              ELSE /\ currentLine' = Append(currentLine, ch)
                   /\ UNCHANGED <<fullMessage, stdout>>
    /\ (InLoop /\ ~(pc = "rune")) => UNCHANGED <<fullMessage, currentLine>>

(***************************************************************************)
(* C8: while the loop runs, fullMessage followed by currentLine is every   *)
(* content character received so far; fullMessage only grows by appending; *)
(* currentLine never holds a newline between steps: it is emptied exactly  *)
(* when a newline is appended, its content with the newline going to       *)
(* fullMessage and to the console.                                         *)
(***************************************************************************)
C8_AccumulatorInvariant == []C8_State /\ [][C8_Step]_vars

C8_Witness ==
    /\ pc = "rune"
    /\ fullMessage # <<>>
    /\ currentLine # <<>>
    /\ Len(lines) >= 2

\* The lines before the first termination line.
UpToDone(ls) ==
    LET ds == {i \in DOMAIN ls : ls[i] = DoneLine}
    IN IF ds = {} THEN ls ELSE SubSeq(ls, 1, Min(ds) - 1)

(***************************************************************************)
(* C9 as claimed: the termination line contributes no text, and once it    *)
(* has been read no later line contributes to the returned message or to   *)
(* the console.                                                            *)
(***************************************************************************)
C9_Original ==
    Succeeded =>
        /\ ret = Received(UpToDone(lines))
        /\ Printed = ExpectedConsole(Received(UpToDone(lines)))

\* C9, at the end: the lines after the termination line count.
C9_State ==
    Succeeded =>
        LET t == Received(UpToDone(lines))
                 \o Received(SubSeq(lines, Len(UpToDone(lines)) + 1,
                                    Len(lines)))
        IN ret = t /\ Printed = ExpectedConsole(t)

\* C9, in the step that reads the termination line.
C9_Step ==
    (pc = "scan" /\ lines' = Append(lines, DoneLine)) =>
        /\ pc' = "scan"
        /\ UNCHANGED <<jsonStr, chunk, fullMessage, currentLine, stdout>>

(***************************************************************************)
(* C9 as amended: the termination line is never decoded as an event and    *)
(* contributes no text, but it does not end the reading: the lines after   *)
(* it are processed like any other and their content reaches the returned  *)
(* message and the console.                                                *)
(***************************************************************************)
C9_TerminationLine == []C9_State /\ [][C9_Step]_vars

C9_Witness ==
    /\ Succeeded
    /\ \E i \in DOMAIN lines :
         /\ lines[i] = DoneLine
         /\ \E j \in Carriers(lines) : j > i
    /\ Len(ret) >= 2
    /\ Len(Printed) >= 2

(***************************************************************************)
(* C10: when the reading stops on a read failure, the lines completed      *)
(* before it are on the console, a non-empty residual is still printed and *)
(* appended to fullMessage before the error is looked at, and the call     *)
(* then returns the error with an empty message.                           *)
(***************************************************************************)
C10_ConsoleOnReadFailure ==
    /\ (pc = "return" /\ failure = "read") =>
           /\ fullMessage = Received(lines)
           /\ Printed = ExpectedConsole(Received(lines))
    /\ (pc = "afterStream" /\ failure = "read") =>
           /\ err # Nil
           /\ ret = <<>>
           /\ Printed = ExpectedConsole(Received(lines))

C10_Witness ==
    /\ pc = "afterStream"
    /\ failure = "read"
    /\ ret = <<>>
    /\ Len(Printed) >= 2
    /\ Residual(Received(lines)) # <<>>

====
